---------------------------- MODULE Spec2Model ----------------------------
(***************************************************************************)
(* A model of checkProcs.go: the /proc reader (processes, findProcess,     *)
(* UnixProcess.Refresh) and the command-line check built on it (main,      *)
(* Command, help).                                                         *)
(*                                                                         *)
(* Text is a sequence of one-character strings, so that the byte indexing  *)
(* and slicing of Refresh is modelled position by position.  Go indexes    *)
(* from 0 and TLA+ from 1: the Go slice data[lo:hi] is SubSeq(data, lo+1,  *)
(* hi).  The alphabet of the model has no newline, tab or multi-byte rune. *)
(*                                                                         *)
(* The /proc directory is a set of live entries that only shrinks while    *)
(* the program runs (processes exit); the content of /proc/<pid>/stat is   *)
(* chosen when it is read.  os.Open, Readdir and os.Stat may fail.         *)
(*                                                                         *)
(* An out-of-range slice expression panics.  Nothing recovers a panic, so  *)
(* it ends the program: under main the Go runtime exits with status 2.     *)
(* int is taken to be 64 bits wide.  fmt.Sscanf is modelled as in current  *)
(* Go releases: a space of the format needs a space of the input, unless   *)
(* the input has ended.                                                    *)
(***************************************************************************)
EXTENDS Integers, Sequences, FiniteSets, TLC

(***************************************************************************)
(* Bounds of the model.                                                    *)
(***************************************************************************)
\* The largest number of entries the /proc directory holds at the start.
MaxEntries == 5

(***************************************************************************)
(* Program constants.                                                      *)
(***************************************************************************)
OK == 0
WARNING == 1
CRITICAL == 2
UNKNOWN == 3
\* d.Readdir(10): the size of one batch of directory entries.
ReaddirCount == 10

(***************************************************************************)
(* Text helpers: Go's strings and strconv functions the program calls.     *)
(***************************************************************************)
Digits == {"0", "1", "2", "3", "4", "5", "6", "7", "8", "9"}

DigitValue(c) ==
    CASE c = "0" -> 0 [] c = "1" -> 1 [] c = "2" -> 2 [] c = "3" -> 3
      [] c = "4" -> 4 [] c = "5" -> 5 [] c = "6" -> 6 [] c = "7" -> 7
      [] c = "8" -> 8 [] c = "9" -> 9

DigitChar(d) ==
    CASE d = 0 -> "0" [] d = 1 -> "1" [] d = 2 -> "2" [] d = 3 -> "3"
      [] d = 4 -> "4" [] d = 5 -> "5" [] d = 6 -> "6" [] d = 7 -> "7"
      [] d = 8 -> "8" [] d = 9 -> "9"

\* The value of a string of decimal digits.
RECURSIVE DecimalValue(_)
DecimalValue(s) ==
    IF s = <<>> THEN 0
    ELSE 10 * DecimalValue(SubSeq(s, 1, Len(s) - 1)) + DigitValue(s[Len(s)])

\* The decimal digits of a natural number.
RECURSIVE NatDigits(_)
NatDigits(n) ==
    IF n < 10 THEN <<DigitChar(n)>>
    ELSE Append(NatDigits(n \div 10), DigitChar(n % 10))

\* fmt.Sprintf("%d", n): the path component the program builds from a pid.
Itoa(n) ==
    IF n < 0 THEN <<"-">> \o NatDigits(-n) ELSE NatDigits(n)

\* strings.IndexRune(s, c): the Go (0-based) index of the first c, or -1.
IndexRune(s, c) ==
    IF \E i \in 1..Len(s) : s[i] = c
    THEN (CHOOSE i \in 1..Len(s) : s[i] = c /\ \A j \in 1..(i - 1) : s[j] # c) - 1
    ELSE -1

\* s without its leading zeros.
RECURSIVE StripZeros(_)
StripZeros(s) ==
    IF s # <<>> /\ s[1] = "0" THEN StripZeros(Tail(s)) ELSE s

\* math.MaxInt64, the largest int of a 64-bit build, as digits.
MaxInt64Digits ==
    \* "9223372036854775807"
    <<"9", "2", "2", "3", "3", "7", "2", "0", "3", "6",
      "8", "5", "4", "7", "7", "5", "8", "0", "7">>

\* Whether the digit string a is at most the digit string b of equal length.
RECURSIVE DigitsLeq(_, _)
DigitsLeq(a, b) ==
    IF a = <<>> THEN TRUE
    ELSE IF DigitValue(a[1]) < DigitValue(b[1]) THEN TRUE
    ELSE IF DigitValue(a[1]) > DigitValue(b[1]) THEN FALSE
    ELSE DigitsLeq(Tail(a), Tail(b))

\* Whether a string of decimal digits is a value an int can hold.
FitsInt(ds) ==
    LET t == StripZeros(ds)
    IN  \/ Len(t) < Len(MaxInt64Digits)
        \/ Len(t) = Len(MaxInt64Digits) /\ DigitsLeq(t, MaxInt64Digits)

\* strconv.ParseInt(s, 10, 0): an optional sign, then decimal digits only,
\* and a value in the range of int.  (The negative bound is one larger in
\* magnitude; no name of the model reaches it.)
ParseInt(s) ==
    LET signed == s # <<>> /\ s[1] \in {"+", "-"}
        ds     == IF signed THEN Tail(s) ELSE s
    IN  IF ds = <<>> \/ \E i \in 1..Len(ds) : ds[i] \notin Digits
        THEN [ok |-> FALSE, val |-> 0]
        ELSE IF ~FitsInt(ds)
        THEN [ok |-> FALSE, val |-> 0]
        ELSE [ok |-> TRUE,
              val |-> IF signed /\ s[1] = "-" THEN 0 - DecimalValue(ds)
                      ELSE DecimalValue(ds)]

(***************************************************************************)
(* fmt.Sscanf(data, "%c %d %d %d", ...), as Refresh calls it.              *)
(***************************************************************************)
\* The first position at or after pos that holds no space (Len(s)+1 at the end).
RECURSIVE SkipSpace(_, _)
SkipSpace(s, pos) ==
    IF pos <= Len(s) /\ s[pos] = " " THEN SkipSpace(s, pos + 1) ELSE pos

\* A space of the format: at the end of the input it matches nothing;
\* otherwise the input must hold at least one space, and all are consumed.
FormatSpace(s, pos) ==
    IF pos > Len(s) THEN [ok |-> TRUE, pos |-> pos]
    ELSE IF s[pos] # " " THEN [ok |-> FALSE, pos |-> pos]
    ELSE [ok |-> TRUE, pos |-> SkipSpace(s, pos)]

\* The end of the run of digits and underscores that starts at pos.
RECURSIVE NumberEnd(_, _)
NumberEnd(s, pos) ==
    IF pos <= Len(s) /\ s[pos] \in (Digits \cup {"_"})
    THEN NumberEnd(s, pos + 1) ELSE pos

\* The verb %d once the leading spaces are skipped (p1) and the sign is
\* accepted (p2): a run of digits (and underscores, which the conversion
\* then rejects) up to p3.
ScanNumber(s, p1, p2, p3) ==
    IF p1 > Len(s) \/ p3 = p2 \/ ~ParseInt(SubSeq(s, p1, p3 - 1)).ok
    THEN [ok |-> FALSE, val |-> 0, pos |-> p3]
    ELSE [ok |-> TRUE, val |-> ParseInt(SubSeq(s, p1, p3 - 1)).val, pos |-> p3]

AcceptSign(s, p1) ==
    IF p1 <= Len(s) /\ s[p1] \in {"+", "-"} THEN p1 + 1 ELSE p1

ScanSigned(s, p1, p2) == ScanNumber(s, p1, p2, NumberEnd(s, p2))

ScanInt(s, pos) ==
    ScanSigned(s, SkipSpace(s, pos), AcceptSign(s, SkipSpace(s, pos)))

\* The zero value of a rune.
ZeroRune == ""

\* " %d" of the format: the space, then the integer.
SpaceThenInt(s, sp) ==
    IF ~sp.ok THEN [ok |-> FALSE, val |-> 0, pos |-> sp.pos]
    ELSE ScanInt(s, sp.pos)

\* What Sscanf has stored after %c and the three integers d1, d2, d3, each
\* scanned only if the one before it was: n is the number of values stored.
Stored(c, d1, d2, d3) ==
    [n     |-> IF ~d1.ok THEN 1 ELSE IF ~d2.ok THEN 2 ELSE IF ~d3.ok THEN 3 ELSE 4,
     state |-> c,
     ppid  |-> IF d1.ok THEN d1.val ELSE 0,
     pgrp  |-> IF d1.ok /\ d2.ok THEN d2.val ELSE 0,
     sid   |-> IF d1.ok /\ d2.ok /\ d3.ok THEN d3.val ELSE 0]

ScanThird(data, c, d1, d2) ==
    Stored(c, d1, d2,
           IF d1.ok /\ d2.ok
           THEN SpaceThenInt(data, FormatSpace(data, d2.pos))
           ELSE [ok |-> FALSE, val |-> 0, pos |-> 0])

ScanSecond(data, c, d1) ==
    ScanThird(data, c, d1,
              IF d1.ok THEN SpaceThenInt(data, FormatSpace(data, d1.pos))
              ELSE [ok |-> FALSE, val |-> 0, pos |-> 0])

\* Sscanf stores each value as it scans it and stops at the first one it
\* cannot scan; with no input at all, %c fails and nothing is stored.
Sscanf(data) ==
    IF data = <<>>
    THEN [n |-> 0, state |-> ZeroRune, ppid |-> 0, pgrp |-> 0, sid |-> 0]
    ELSE ScanSecond(data, data[1], SpaceThenInt(data, FormatSpace(data, 2)))

(***************************************************************************)
(* UnixProcess and Refresh.                                                *)
(***************************************************************************)
\* &UnixProcess{pid: pid}: every other field holds its zero value.
UnixProcess(pid) ==
    [pid |-> pid, ppid |-> 0, state |-> ZeroRune, pgrp |-> 0, sid |-> 0,
     binary |-> <<>>]

\* The outcome of ioutil.ReadFile when the file cannot be read.
NoFile == [ok |-> FALSE, data |-> <<>>]

ReadOk(text) == [ok |-> TRUE, data |-> text]

\* The name Refresh takes from the record: from after the first "(" up to
\* the first ")" that follows it.
BinStart(data) == IndexRune(data, "(") + 1

BinEnd(data) ==
    IndexRune(SubSeq(data, BinStart(data) + 1, Len(data)), ")")

\* The end of Refresh: the fields Sscanf stored are in p, and the error of
\* Sscanf (it scanned fewer than four values) is returned.
Scanned(q, sc) ==
    [st |-> IF sc.n = 4 THEN "ok" ELSE "err",
     p  |-> [q EXCEPT !.state = sc.state, !.ppid = sc.ppid,
                      !.pgrp = sc.pgrp, !.sid = sc.sid]]

\* Refresh once the record is read: the two slice expressions, each of
\* which panics when its bounds are out of range, then Sscanf on the rest.
ParseStat(p, data, binStart, binEnd) ==
    IF binEnd < 0
    THEN \* data[binStart : binStart+binEnd] with binEnd = -1
         [st |-> "panic", p |-> p]
    ELSE IF binStart + binEnd + 2 > Len(data)
    THEN \* data[binStart+binEnd+2:] past the end of data
         [st |-> "panic",
          p  |-> [p EXCEPT !.binary = SubSeq(data, binStart + 1, binStart + binEnd)]]
    ELSE Scanned([p EXCEPT !.binary = SubSeq(data, binStart + 1, binStart + binEnd)],
                 Sscanf(SubSeq(data, binStart + binEnd + 3, Len(data))))

\* p.Refresh() on the outcome `file` of reading /proc/<pid>/stat.
\*   st = "err":   Refresh returns an error (p is left partly filled);
\*   st = "panic": a slice expression is out of range, which panics;
\*   st = "ok":    Refresh returns nil.
Refresh(p, file) ==
    IF ~file.ok THEN [st |-> "err", p |-> p]
    ELSE ParseStat(p, file.data, BinStart(file.data), BinEnd(file.data))

\* newUnixProcess(pid): the pointer is returned whatever Refresh returns.
newUnixProcess(pid, file) == Refresh(UnixProcess(pid), file)

(***************************************************************************)
(* The environment: the /proc directory and the status records the kernel  *)
(* serves.                                                                 *)
(***************************************************************************)
sshd == <<"s", "s", "h", "d">>

init == <<"i", "n", "i", "t">>

kthreadd == <<"k", "t", "h", "r", "e", "a", "d", "d">>

\* The entries /proc may hold, in the order Readdir lists them.
ProcOrder ==
    << [name |-> <<"1">>, isDir |-> TRUE],
       [name |-> <<"2">>, isDir |-> TRUE],
       [name |-> <<"s", "e", "l", "f">>, isDir |-> TRUE],
       [name |-> <<"4", "2", "a", "b", "c">>, isDir |-> TRUE],
       [name |-> <<"3", "0", "0">>, isDir |-> TRUE],
       [name |-> <<"5">>, isDir |-> TRUE],
       [name |-> <<"0", "1">>, isDir |-> TRUE],
       [name |-> <<"7">>, isDir |-> FALSE],
       \* "99999999999999999999"
       [name |-> <<"9", "9", "9", "9", "9", "9", "9", "9", "9", "9",
                   "9", "9", "9", "9", "9", "9", "9", "9", "9", "9">>,
        isDir |-> TRUE] >>

Entries == 1..Len(ProcOrder)

StatInit ==
    \* "1 (init) S 0 1 1 0 -1"
    <<"1", " ", "(", "i", "n", "i", "t", ")", " ", "S", " ", "0", " ", "1",
      " ", "1", " ", "0", " ", "-", "1">>

StatKthreadd ==
    \* "2 (kthreadd) S 0 0 0 0 -1"
    <<"2", " ", "(", "k", "t", "h", "r", "e", "a", "d", "d", ")", " ", "S",
      " ", "0", " ", "0", " ", "0", " ", "0", " ", "-", "1">>

StatSshd ==
    \* "300 (sshd) S 1 300 300 0 -1"
    <<"3", "0", "0", " ", "(", "s", "s", "h", "d", ")", " ", "S", " ", "1",
      " ", "3", "0", "0", " ", "3", "0", "0", " ", "0", " ", "-", "1">>

StatPlain ==
    \* "5 (sshd) S 1 5 5"
    <<"5", " ", "(", "s", "s", "h", "d", ")", " ", "S", " ", "1", " ", "5",
      " ", "5">>

StatParens ==
    \* "5 (a(b)c) S 1 5 5"
    <<"5", " ", "(", "a", "(", "b", ")", "c", ")", " ", "S", " ", "1", " ",
      "5", " ", "5">>

StatSpoof ==
    \* "5 (sshd) S 1 8 9) S 0 5 5": the name is "sshd) S 1 8 9"
    <<"5", " ", "(", "s", "s", "h", "d", ")", " ", "S", " ", "1", " ", "8",
      " ", "9", ")", " ", "S", " ", "0", " ", "5", " ", "5">>

StatNoOpen ==
    \* "5 sshd) S 1 5 5"
    <<"5", " ", "s", "s", "h", "d", ")", " ", "S", " ", "1", " ", "5", " ",
      "5">>

StatNoClose ==
    \* "5 (sshd S 1 5 5"
    <<"5", " ", "(", "s", "s", "h", "d", " ", "S", " ", "1", " ", "5", " ",
      "5">>

StatNoRest ==
    \* "5 (sshd)"
    <<"5", " ", "(", "s", "s", "h", "d", ")">>

StatOnlySpace ==
    \* "5 (sshd) "
    <<"5", " ", "(", "s", "s", "h", "d", ")", " ">>

StatBadPpid ==
    \* "5 (sshd) S x 5 5"
    <<"5", " ", "(", "s", "s", "h", "d", ")", " ", "S", " ", "x", " ", "5",
      " ", "5">>

StatBadPgrp ==
    \* "5 (sshd) S 1 y 5"
    <<"5", " ", "(", "s", "s", "h", "d", ")", " ", "S", " ", "1", " ", "y",
      " ", "5">>

StatBadSid ==
    \* "5 (sshd) S 1 5 z"
    <<"5", " ", "(", "s", "s", "h", "d", ")", " ", "S", " ", "1", " ", "5",
      " ", "z">>

StatEmpty == <<>>

\* The records of the documented format, with the fields they were written
\* from; a name may hold parentheses.
WellFormed ==
    { [text |-> StatInit, name |-> init, state |-> "S", ppid |-> 0,
       pgrp |-> 1, sid |-> 1],
      [text |-> StatKthreadd, name |-> kthreadd, state |-> "S", ppid |-> 0,
       pgrp |-> 0, sid |-> 0],
      [text |-> StatSshd, name |-> sshd, state |-> "S", ppid |-> 1,
       pgrp |-> 300, sid |-> 300],
      [text |-> StatPlain, name |-> sshd, state |-> "S", ppid |-> 1,
       pgrp |-> 5, sid |-> 5],
      [text |-> StatParens, name |-> <<"a", "(", "b", ")", "c">>,
       state |-> "S", ppid |-> 1, pgrp |-> 5, sid |-> 5],
      [text |-> StatSpoof,
       name |-> <<"s", "s", "h", "d", ")", " ", "S", " ", "1", " ", "8",
                  " ", "9">>,
       state |-> "S", ppid |-> 0, pgrp |-> 5, sid |-> 5] }

\* The records that are not of the documented format.
Malformed ==
    { StatNoOpen, StatNoClose, StatNoRest, StatOnlySpace, StatBadPpid,
      StatBadPgrp, StatBadSid, StatEmpty }

\* What /proc/<pid>/stat may hold when it is read: the record of a process
\* is whatever the kernel serves at that moment.
StatTexts(pid) ==
    CASE pid = 1   -> {StatInit}
      [] pid = 2   -> {StatKthreadd}
      [] pid = 300 -> {StatSshd}
      [] pid = 5   -> {w.text : w \in WellFormed} \cup Malformed
      [] OTHER     -> {}

\* Whether /proc holds the name, as any kind of entry.
Exists(l, nm) == \E i \in l : ProcOrder[i].name = nm

IsLiveDir(l, nm) == \E i \in l : ProcOrder[i].name = nm /\ ProcOrder[i].isDir

\* The outcomes of ioutil.ReadFile("/proc/<pid>/stat") with the entries l.
ReadFile(l, pid) ==
    IF IsLiveDir(l, Itoa(pid)) /\ StatTexts(pid) # {}
    THEN {ReadOk(t) : t \in StatTexts(pid)}
    ELSE {NoFile}

\* The entries d.Readdir(n) returns: the next n live ones after offset dpos.
RECURSIVE ReaddirFrom(_, _, _)
ReaddirFrom(l, dpos, n) ==
    IF n = 0 \/ ~\E i \in l : i > dpos THEN <<>>
    ELSE LET i == CHOOSE j \in l : j > dpos /\ \A k \in l : k > dpos => j <= k
         IN  <<i>> \o ReaddirFrom(l, i, n - 1)

(***************************************************************************)
(* The callers' inputs.                                                    *)
(***************************************************************************)
Prog == <<"c", "h", "e", "c", "k">>

FlagC == <<"-", "c">>

FlagX == <<"-", "x">>

\* The values of os.Args the model runs main with.
ArgvSet ==
    { <<Prog>>,
      <<Prog, FlagC, sshd>>,
      <<Prog, FlagC, init>>,
      <<Prog, FlagX, sshd>>,
      <<Prog, FlagC, <<>>>>,
      <<Prog, FlagC, sshd, sshd>> }

\* The identifiers the model calls FindProcess with.
FindPids == {1, 5, 7, 9}

(***************************************************************************)
(* State.                                                                  *)
(***************************************************************************)
VARIABLES
    live,      \* the entries /proc holds now (indices of ProcOrder)
    pc,        \* where the program is
    argv,      \* os.Args
    findPid,   \* the argument of FindProcess
    dpos,      \* processes: the offset of the open directory d
    fis,       \* processes: the batch Readdir returned
    idx,       \* processes: the position of the range loop in fis
    results,   \* processes: the slice of records built so far
    ret,       \* what FindProcess or Processes returned to its caller
    exitCode,  \* the exit status of the program, -1 while it runs
    last,      \* history: the last call of newUnixProcess and its outcome
    log,       \* history: what processes did with each entry it ranged over
    probe,     \* history: what the os.Stat of findProcess reported
    reads,     \* history: the number of status records read
    enum,      \* history: how the listing of /proc by processes went
    listed0    \* history: the entries /proc held when the program started

vars ==
    <<live, pc, argv, findPid, dpos, fis, idx, results, ret, exitCode, last,
      log, probe, reads, enum, listed0>>

\* The value of ret before a call returns.
NoReturn == [kind |-> "none"]

\* The value of last before any call of newUnixProcess.
NoCall == [called |-> FALSE]

Init ==
    /\ live \in {l \in SUBSET Entries : Cardinality(l) <= MaxEntries}
    /\ listed0 = live
    /\ pc = "idle"
    /\ argv = <<>>
    /\ findPid = 0
    /\ dpos = 0
    /\ fis = <<>>
    /\ idx = 1
    /\ results = <<>>
    /\ ret = NoReturn
    /\ exitCode = -1
    /\ last = NoCall
    /\ log = <<>>
    /\ probe = "none"
    /\ reads = 0
    /\ enum = "none"

(***************************************************************************)
(* The operating system: a process exits and its directory leaves /proc.   *)
(***************************************************************************)
\* Whether every character of a name is a decimal digit.
AllDigits(nm) == \A k \in 1..Len(nm) : nm[k] \in Digits

\* The entries that stand for processes: directories with a numeric name.
IsProcessEntry(i) == ProcOrder[i].isDir /\ AllDigits(ProcOrder[i].name)

Vanish(i) ==
    /\ pc \in {"stat", "new", "open", "readdir", "entry"}
    /\ i \in live
    /\ IsProcessEntry(i)
    /\ live' = live \ {i}
    /\ UNCHANGED <<pc, argv, findPid, dpos, fis, idx, results, ret, exitCode,
                   last, log, probe, reads, listed0, enum>>

(***************************************************************************)
(* FindProcess / findProcess.                                              *)
(***************************************************************************)
CallFindProcess(pid) ==
    /\ pc = "idle"
    /\ pc' = "stat"
    /\ findPid' = pid
    /\ UNCHANGED <<live, argv, dpos, fis, idx, results, ret, exitCode, last,
                   log, probe, reads, listed0, enum>>

\* A nil Process.
NoProcess == [nil |-> TRUE]

\* Mutant of FindStatReturn: os.IsNotExist is not checked, so every error of
\* os.Stat is returned.
FindStatReturnAnyError(found) ==
    [kind |-> "find", p |-> NoProcess, err |-> TRUE]

\* The return values of findProcess when os.Stat("/proc/<pid>") returned an
\* error: "notexist" (os.IsNotExist holds of it) or any other "error".
FindStatReturn(found) ==
    IF found = "notexist"
    THEN [kind |-> "find", p |-> NoProcess, err |-> FALSE]
    ELSE [kind |-> "find", p |-> NoProcess, err |-> TRUE]

\* return newUnixProcess(pid): the pointer and the error of Refresh.
FindNewReturn(out) ==
    [kind |-> "find", p |-> out.p, err |-> (out.st = "err")]

\* os.Stat finds the directory, or reports that it does not exist.
FindStat ==
    /\ pc = "stat"
    /\ IF Exists(live, Itoa(findPid))
       THEN /\ probe' = "exists"
            /\ pc' = "new"
            /\ ret' = ret
       ELSE /\ probe' = "notexist"
            /\ pc' = "returned"
            /\ ret' = FindStatReturn("notexist")
    /\ UNCHANGED <<live, argv, findPid, dpos, fis, idx, results, exitCode,
                   last, log, reads, listed0, enum>>

\* os.Stat fails with another error (permission, I/O).
FindStatError ==
    /\ pc = "stat"
    /\ probe' = "error"
    /\ pc' = "returned"
    /\ ret' = FindStatReturn("error")
    /\ UNCHANGED <<live, argv, findPid, dpos, fis, idx, results, exitCode,
                   last, log, reads, listed0, enum>>

FindNew ==
    /\ pc = "new"
    /\ \E file \in ReadFile(live, findPid) :
         \E out \in {newUnixProcess(findPid, file)} :
             /\ last' = [called |-> TRUE, pid |-> findPid, file |-> file,
                         out |-> out]
             /\ reads' = reads + 1
             /\ IF out.st = "panic"
                THEN pc' = "panicked" /\ ret' = ret
                ELSE pc' = "returned" /\ ret' = FindNewReturn(out)
    /\ UNCHANGED <<live, argv, findPid, dpos, fis, idx, results, exitCode,
                   log, probe, listed0, enum>>

(***************************************************************************)
(* Processes / processes.                                                  *)
(***************************************************************************)
\* Mutant of Considered: the IsDir check is left out.
ConsideredAnyKind(fi) ==
    /\ fi.name[1] \in Digits
    /\ ParseInt(fi.name).ok

\* The filter of the range loop: a directory whose name starts with a digit
\* and converts to an int.
Considered(fi) ==
    /\ fi.isDir
    /\ fi.name[1] \in Digits
    /\ ParseInt(fi.name).ok

\* What Processes returns: the slice and no error, or nil and an error.
ProcessesReturn(procs, failed) ==
    IF failed THEN [kind |-> "procs", procs |-> <<>>, err |-> TRUE]
    ELSE [kind |-> "procs", procs |-> procs, err |-> FALSE]

(***************************************************************************)
(* main, Command and help.                                                 *)
(***************************************************************************)
\* The checks of Command that end in help(), which exits with UNKNOWN.
UsageError(a) ==
    IF Len(a) # 3 THEN TRUE
    ELSE IF a[2] # FlagC THEN TRUE
    ELSE a[3] = <<>>

\* Mutant of MainExit: the parent id is not compared with 1.
MainExitAnyParent(r, command) ==
    IF r.err THEN UNKNOWN
    ELSE IF \E i \in 1..Len(r.procs) : r.procs[i].binary = command
         THEN OK
         ELSE CRITICAL

\* The exit status of main once Command has returned.
MainExit(r, command) ==
    IF r.err THEN UNKNOWN
    ELSE IF \E i \in 1..Len(r.procs) :
              r.procs[i].binary = command /\ r.procs[i].ppid = 1
         THEN OK
         ELSE CRITICAL

MainHelp(a) ==
    /\ pc = "idle"
    /\ UsageError(a)
    /\ argv' = a
    /\ exitCode' = UNKNOWN
    /\ pc' = "exited"
    /\ UNCHANGED <<live, findPid, dpos, fis, idx, results, ret, last, log,
                   probe, reads, listed0, enum>>

MainStart(a) ==
    /\ pc = "idle"
    /\ ~UsageError(a)
    /\ argv' = a
    /\ pc' = "open"
    /\ UNCHANGED <<live, findPid, dpos, fis, idx, results, ret, exitCode,
                   last, log, probe, reads, listed0, enum>>

\* Processes has returned r to Command, and Command to main.
Returned(r) ==
    /\ ret' = r
    /\ exitCode' = MainExit(r, argv[3])
    /\ pc' = "exited"

Open ==
    /\ pc = "open"
    /\ pc' = "readdir"
    /\ dpos' = 0
    /\ results' = <<>>
    /\ enum' = "listing"
    /\ UNCHANGED <<live, argv, findPid, fis, idx, ret, exitCode, last, log,
                   probe, reads, listed0>>

\* os.Open("/proc") fails.
OpenError ==
    /\ pc = "open"
    /\ Returned(ProcessesReturn(<<>>, TRUE))
    /\ enum' = "open-error"
    /\ UNCHANGED <<live, argv, findPid, dpos, fis, idx, results, last, log,
                   probe, reads, listed0>>

Readdir ==
    /\ pc = "readdir"
    /\ LET batch == ReaddirFrom(live, dpos, ReaddirCount)
       IN  /\ batch # <<>>
           /\ fis' = batch
           /\ idx' = 1
           /\ dpos' = batch[Len(batch)]
           /\ pc' = "entry"
    /\ UNCHANGED <<live, argv, findPid, results, ret, exitCode, last, log,
                   probe, reads, listed0, enum>>

\* Readdir returns io.EOF: the loop ends and the slice is returned.
ReaddirEOF ==
    /\ pc = "readdir"
    /\ ReaddirFrom(live, dpos, ReaddirCount) = <<>>
    /\ Returned(ProcessesReturn(results, FALSE))
    /\ enum' = "listed"
    /\ UNCHANGED <<live, argv, findPid, dpos, fis, idx, results, last, log,
                   probe, reads, listed0>>

\* Readdir fails with another error.
ReaddirError ==
    /\ pc = "readdir"
    /\ Returned(ProcessesReturn(results, TRUE))
    /\ enum' = "readdir-error"
    /\ UNCHANGED <<live, argv, findPid, dpos, fis, idx, results, last, log,
                   probe, reads, listed0>>

\* The range loop moves to the next entry of the batch.
NextEntry ==
    /\ idx' = idx + 1
    /\ pc' = IF idx + 1 > Len(fis) THEN "readdir" ELSE "entry"

\* An entry the filter drops.
EntrySkip ==
    /\ pc = "entry"
    /\ ~Considered(ProcOrder[fis[idx]])
    /\ log' = Append(log, [entry |-> fis[idx], st |-> "filtered"])
    /\ NextEntry
    /\ UNCHANGED <<live, argv, findPid, dpos, fis, results, ret, exitCode,
                   last, probe, reads, listed0, enum>>

\* An entry the filter keeps: its name is converted, the status record of
\* that identifier is read and parsed, and the record is appended unless
\* newUnixProcess returned an error.  A panic ends the program; the Go
\* runtime exits with status 2.
EntryRead ==
    /\ pc = "entry"
    /\ Considered(ProcOrder[fis[idx]])
    /\ \E pid \in {ParseInt(ProcOrder[fis[idx]].name).val} :
           \E file \in ReadFile(live, pid) :
             \E out \in {newUnixProcess(pid, file)} :
                 /\ last' = [called |-> TRUE, pid |-> pid, file |-> file,
                             out |-> out]
                 /\ reads' = reads + 1
                 /\ log' = Append(log, [entry |-> fis[idx], st |-> out.st,
                                        pid |-> pid, file |-> file])
                 /\ IF out.st = "panic"
                    THEN /\ pc' = "panicked"
                         /\ exitCode' = 2
                         /\ UNCHANGED <<idx, results>>
                    ELSE /\ NextEntry
                         /\ exitCode' = exitCode
                         /\ results' = IF out.st = "ok"
                                       THEN Append(results, out.p)
                                       ELSE results
    /\ UNCHANGED <<live, argv, findPid, dpos, fis, ret, probe, listed0, enum>>

Next ==
    \/ \E i \in Entries : Vanish(i)
    \/ \E pid \in FindPids : CallFindProcess(pid)
    \/ FindStat
    \/ FindStatError
    \/ FindNew
    \/ \E a \in ArgvSet : MainHelp(a)
    \/ \E a \in ArgvSet : MainStart(a)
    \/ Open
    \/ OpenError
    \/ Readdir
    \/ ReaddirEOF
    \/ ReaddirError
    \/ EntrySkip
    \/ EntryRead

Spec == Init /\ [][Next]_vars

(***************************************************************************)
(* Properties.                                                             *)
(***************************************************************************)
\* A run of main (as opposed to a call of FindProcess).
MainRun == argv # <<>>

\* C1: when the status record read has an executable name that itself holds
\* "(" or ")", Refresh succeeds, the name it stores is the whole text
\* strictly between the first "(" and the last ")" of the record, and state,
\* parent id, process group and session are the tokens after that last ")".
C1_NameUpToLastParen ==
    (last.called /\ last.file.ok
       /\ \E w \in WellFormed :
            /\ w.text = last.file.data
            /\ \E k \in 1..Len(w.name) : w.name[k] \in {"(", ")"})
    => LET data   == last.file.data
           open   == CHOOSE i \in 1..Len(data) :
                       data[i] = "(" /\ \A j \in 1..(i - 1) : data[j] # "("
           close  == CHOOSE i \in 1..Len(data) :
                       data[i] = ")" /\ \A j \in (i + 1)..Len(data) : data[j] # ")"
       IN  /\ last.out.st = "ok"
           /\ last.out.p.binary = SubSeq(data, open + 1, close - 1)
           /\ \A w \in WellFormed :
                w.text = data =>
                  /\ last.out.p.state = w.state
                  /\ last.out.p.ppid = w.ppid
                  /\ last.out.p.pgrp = w.pgrp
                  /\ last.out.p.sid = w.sid

\* C2: when the status record read for identifier P is of the documented
\* format "<num> (<name>) <state> <ppid> <pgrp> <sid> ...", Refresh succeeds
\* and the record has pid = P, the name, the state and the parent id of the
\* text; what follows the session id is ignored.
C2_WellFormedParses ==
    \A w \in WellFormed :
      (last.called /\ last.file.ok /\ last.file.data = w.text)
      => /\ last.out.st = "ok"
         /\ last.out.p.pid = last.pid
         /\ last.out.p.binary = w.name
         /\ last.out.p.state = w.state
         /\ last.out.p.ppid = w.ppid

\* C3: when the status record was read but is malformed, Refresh returns an
\* error: it neither reports success nor ends the program with a panic.
C3_MalformedIsError ==
    (last.called /\ last.file.ok /\ last.file.data \in Malformed)
    => (last.out.st = "err" /\ pc # "panicked")

\* C4: when a listed process has vanished before its status record is read
\* (the read of /proc/<name>/stat of an entry that was listed fails),
\* processes still completes; it returns an error only if /proc could not be
\* opened or listed, and otherwise returns one record for each other entry
\* whose status record was read and parsed.
C4_SnapshotSurvivesVanish ==
    (MainRun /\ \E k \in 1..Len(log) :
                  /\ log[k].st # "filtered"
                  /\ ProcOrder[log[k].entry].name = Itoa(log[k].pid)
                  /\ ~log[k].file.ok)
    => LET okIdx   == {k \in 1..Len(log) : log[k].st = "ok"}
           Rank(k) == Cardinality({j \in okIdx : j <= k})
       IN  /\ pc # "panicked"
           /\ pc = "exited" =>
                /\ ret.err <=> enum \in {"open-error", "readdir-error"}
                /\ ~ret.err =>
                     /\ Len(ret.procs) = Cardinality(okIdx)
                     /\ \A k \in okIdx : ret.procs[Rank(k)].pid = log[k].pid

\* C5 as stated: processes considers exactly the entries that are
\* directories and whose name is all decimal digits.
C5_ConsidersAllDigitDirs ==
    \A k \in 1..Len(log) :
      (log[k].st # "filtered")
      <=> (ProcOrder[log[k].entry].isDir /\ AllDigits(ProcOrder[log[k].entry].name))

\* C5 as amended: processes considers exactly the entries that are
\* directories and whose name is all decimal digits of a value an int can
\* hold; no other entry is read, gives a record or gives an error; and the
\* slice returned holds, in listing order, one record for each considered
\* entry whose status record (that of the identifier its name converts to)
\* was read and parsed.  With the entries "1", "2", "self", "42abc" and "300"
\* and no process exiting, the result is the records of 1, 2 and 300.
C5_ConsidersConvertibleDigitDirs ==
    LET okIdx   == {k \in 1..Len(log) : log[k].st = "ok"}
        Rank(k) == Cardinality({j \in okIdx : j <= k})
        Plain(w) == \A i \in 1..Len(w.name) : w.name[i] # ")"
    IN  /\ \A k \in 1..Len(log) :
             LET fi == ProcOrder[log[k].entry]
             IN  /\ (log[k].st # "filtered")
                      <=> (fi.isDir /\ AllDigits(fi.name) /\ FitsInt(fi.name))
                 /\ log[k].st # "filtered" => log[k].pid = DecimalValue(fi.name)
        /\ MainRun =>
             reads = Cardinality({k \in 1..Len(log) : log[k].st # "filtered"})
        /\ (MainRun /\ pc = "exited" /\ enum = "listed") =>
             /\ ~ret.err
             /\ Len(ret.procs) = Cardinality(okIdx)
             /\ \A k \in okIdx :
                  /\ ret.procs[Rank(k)].pid = log[k].pid
                  /\ \A w \in WellFormed :
                       (w.text = log[k].file.data /\ Plain(w)) =>
                         /\ ret.procs[Rank(k)].binary = w.name
                         /\ ret.procs[Rank(k)].ppid = w.ppid
        /\ (MainRun /\ pc = "exited" /\ enum = "listed"
              /\ listed0 = {1, 2, 3, 4, 5} /\ live = listed0) =>
             /\ Len(ret.procs) = 3
             /\ <<ret.procs[1].pid, ret.procs[2].pid, ret.procs[3].pid>>
                  = <<1, 2, 300>>
             /\ <<ret.procs[1].binary, ret.procs[2].binary, ret.procs[3].binary>>
                  = <<init, kthreadd, sshd>>
             /\ <<ret.procs[1].ppid, ret.procs[2].ppid, ret.procs[3].ppid>>
                  = <<0, 0, 1>>

\* C5 witness: the listing "1", "2", "self", "42abc", "300" was ranged over
\* to the end and the three records were returned.
C5_Witness ==
    /\ MainRun /\ pc = "exited" /\ enum = "listed"
    /\ listed0 = {1, 2, 3, 4, 5}
    /\ live = listed0
    /\ Len(log) = 5
    /\ Len(ret.procs) = 3

\* C6: when os.Stat reports that /proc/<pid> does not exist, findProcess
\* returns a nil process and a nil error, and no status record is read or
\* parsed.
C6_AbsentIsNilNil ==
    probe = "notexist"
    => /\ pc = "returned"
       /\ ret = [kind |-> "find", p |-> NoProcess, err |-> FALSE]
       /\ reads = 0
       /\ ~last.called

\* C6 witness: FindProcess(5) has returned after os.Stat found no /proc/5,
\* the process having exited after the call began.
C6_Witness ==
    /\ probe = "notexist"
    /\ pc = "returned"
    /\ findPid = 5
    /\ 6 \in listed0

\* C7: when reading or parsing the status record of an identifier fails, no
\* record of it reaches the caller: processes leaves it out of its result,
\* and findProcess returns the error with a nil process.
C7_NoRecordOnFailure ==
    /\ (pc = "returned" /\ ret.err) => ret.p = NoProcess
    /\ (MainRun /\ pc = "exited" /\ enum = "listed") =>
         Len(ret.procs) = Cardinality({k \in 1..Len(log) : log[k].st = "ok"})

\* C8: no two records of the slice processes returns have the same pid.
C8_NoDuplicateIds ==
    (MainRun /\ pc = "exited" /\ ret.kind = "procs")
    => \A i, j \in 1..Len(ret.procs) :
         i # j => ret.procs[i].pid # ret.procs[j].pid

\* C9: when os.Stat reports that /proc/<pid> exists, findProcess reads and
\* parses the status record exactly once, and a failure of that read or
\* parse is returned to the caller as an error.
C9_FailureIsReturned ==
    (probe = "exists" /\ pc # "new")
    => /\ reads = 1
       /\ last.out.st # "ok" => (pc = "returned" /\ ret.err)
       /\ last.out.st = "ok" => (pc = "returned" /\ ~ret.err)

\* C10: a run of main ends with one exit status: UNKNOWN if os.Args is not
\* "-c" and a non-empty name (and then nothing is read) or if Processes
\* returned an error; otherwise OK exactly if a record of the returned slice
\* has the name given and parent id 1; otherwise CRITICAL.  WARNING is never
\* the exit status, and there is no exit status while the program runs.
C10_ExitCode ==
    LET usage == ~(Len(argv) = 3 /\ argv[2] = FlagC /\ argv[3] # <<>>)
        procs == IF ret = NoReturn THEN <<>> ELSE ret.procs
        match == \E i \in 1..Len(procs) :
                   procs[i].binary = argv[3] /\ procs[i].ppid = 1
    IN  /\ exitCode # WARNING
        /\ (MainRun /\ pc \in {"exited", "panicked"}) =>
             IF usage
             THEN exitCode = UNKNOWN /\ reads = 0 /\ enum = "none"
             ELSE IF ret # NoReturn /\ ret.err THEN exitCode = UNKNOWN
             ELSE IF match THEN exitCode = OK
             ELSE exitCode = CRITICAL
        /\ pc \notin {"exited", "panicked"} => exitCode = -1
        /\ ~MainRun => exitCode = -1

\* C10 witness: main has exited with OK after Processes returned a record of
\* the name given whose parent is 1.
C10_Witness ==
    /\ MainRun
    /\ pc = "exited"
    /\ exitCode = OK
    /\ Len(ret.procs) >= 2

=============================================================================
